---- MODULE Spec2Model ----
(***************************************************************************)
(* Model of app.py, the Streamlit leaderboard of the Carroll Valley Open:  *)
(* the read-only sheet fetch, the champions registry, the projection into  *)
(* the individual / team / player-round views and the sleep-then-rerun     *)
(* refresh loop, one script run per viewer session at a time.              *)
(***************************************************************************)
EXTENDS Integers, Sequences, FiniteSets, TLC

\* ------------------------------------------------------------------ bounds
NumSessions == 2      \* concurrent viewer sessions (browser tabs)
MaxRows == 2          \* longest table drawn for the wide data checks
MaxEntries == 2       \* most entries drawn for the champions registry file
TickStep == 10        \* time units that pass in one step of the sleeping clock

\* time.sleep(30)
SleepInterval == 30

Sessions == 1..NumSessions

\* ---------------------------------------------------------- Python values
\* A cell or parameter value: a str, an int, a bool or None.
Str(x) == [t |-> "str", s |-> x, i |-> 0]
Num(n) == [t |-> "int", s |-> "", i |-> n]
PyTrue == [t |-> "bool", s |-> "", i |-> 1]
PyFalse == [t |-> "bool", s |-> "", i |-> 0]
PyNone == [t |-> "none", s |-> "", i |-> 0]

\* Python truthiness: None, "", 0 and False are falsy.
Truthy(v) == IF v.t = "str" THEN v.s /= "" ELSE v.i /= 0

\* dict.get(key) with the default None.
DictGet(d, key) == IF key \in DOMAIN d THEN d[key] ELSE PyNone

\* ------------------------------------------------------- champions registry
ErrChampions == "Error loading past champions"
ErrRounds == "Error loading player round data"
ErrSheets == "Error loading data from Google Sheets"
ErrNoData == "Could not load leaderboard data"
WarnNoRounds == "No round data found for this player."

\* player_data.get('past_champion', False)
PastChampionFlag(player_data) ==
    IF "past_champion" \in DOMAIN player_data THEN player_data["past_champion"] ELSE PyFalse

\* The loop over data['players'].items(): the names collected so far, and
\* whether player_data['name'] raised KeyError on the way.
RECURSIVE ScanPlayers(_, _, _)
ScanPlayers(players, k, acc) ==
    IF k > Len(players) THEN [raised |-> FALSE, list |-> acc]
    ELSE IF Truthy(PastChampionFlag(players[k]))
         THEN IF "name" \in DOMAIN players[k]
              THEN ScanPlayers(players, k + 1, Append(acc, players[k]["name"]))
              ELSE [raised |-> TRUE, list |-> acc]
         ELSE ScanPlayers(players, k + 1, acc)

\* What the except branch returns.
PartialOnError(scan) == scan.list
OnRegistryError(scan) == <<>>

\* load_past_champions(): file is the content of players_2024.json.
load_past_champions(file) ==
    IF file.status /= "parsed" \/ ~file.has_players
    THEN [champions |-> OnRegistryError([raised |-> TRUE, list |-> <<>>]),
          errors |-> <<ErrChampions>>]
    ELSE LET scan == ScanPlayers(file.players, 1, <<>>)
         IN  IF scan.raised
             THEN [champions |-> OnRegistryError(scan), errors |-> <<ErrChampions>>]
             ELSE [champions |-> scan.list, errors |-> <<>>]

\* ------------------------------------------------------ the remote fetches
\* How a fetch can end: every step of the try block before the return can raise.
MainOutcomes == {"ok", "fail_connect", "fail_individual", "fail_team"}
DetailOutcomes == {"ok", "fail_connect", "fail_individual"}

NoFrame == [is_none |-> TRUE, rows |-> <<>>]
Frame(rows) == [is_none |-> FALSE, rows |-> rows]

\* What load_data_from_sheets returns when an exception was caught.
PartialOnFetchError(sh, outcome) ==
    [df_individual |-> IF outcome = "fail_team" THEN Frame(sh.individual) ELSE NoFrame,
     df_team |-> NoFrame, errors |-> <<ErrSheets>>]
OnFetchError(sh, outcome) ==
    [df_individual |-> NoFrame, df_team |-> NoFrame, errors |-> <<ErrSheets>>]

load_data_from_sheets(sh, outcome) ==
    IF outcome = "ok"
    THEN [df_individual |-> Frame(sh.individual), df_team |-> Frame(sh.team),
          errors |-> <<>>]
    ELSE OnFetchError(sh, outcome)

\* ------------------------------------------------------------ player rounds
Digit == <<"1", "2", "3", "4", "5">>
RoundNums == <<1, 2, 3, 4, 5>>
RoundKey(n) == "R" \o Digit[n]
RoundLabel(n) == "Round " \o Digit[n]

\* The for/break search for the player's row: its index, 0 when none matches.
RECURSIVE LastMatch(_, _, _)
LastMatch(data, name, k) ==
    IF k = 0 THEN 0
    ELSE IF DictGet(data[k], "Player") = name THEN k
    ELSE LastMatch(data, name, k - 1)
RECURSIVE FirstMatch(_, _, _)
FirstMatch(data, name, k) ==
    IF k > Len(data) THEN 0
    ELSE IF DictGet(data[k], "Player") = name THEN k
    ELSE FirstMatch(data, name, k + 1)

FindLast(data, name) == LastMatch(data, name, Len(data))
FindPlayerRow(data, name) == FirstMatch(data, name, 1)

\* key in player_row and player_row[key] is not None and player_row[key] != ''
SlotTruthy(row, key) == key \in DOMAIN row /\ Truthy(row[key])
SlotPresent(row, key) ==
    key \in DOMAIN row /\ row[key] /= PyNone /\ row[key] /= Str("")

RoundEntry(label, row, key) == [label |-> label, points |-> row[key]]

RECURSIVE NumberedRounds(_, _)
NumberedRounds(row, k) ==
    IF k > Len(RoundNums) THEN <<>>
    ELSE LET round_num == RoundNums[k]
             rest == NumberedRounds(row, k + 1)
         IN  IF SlotPresent(row, RoundKey(round_num))
             THEN <<RoundEntry(RoundLabel(round_num), row, RoundKey(round_num))>> \o rest
             ELSE rest

\* The round_data dict of load_player_round_data, in insertion order.
ExtractRounds(row) ==
    NumberedRounds(row, 1)
    \o (IF SlotPresent(row, "Putt-Off")
        THEN <<RoundEntry("Putt-Off", row, "Putt-Off")>> ELSE <<>>)
    \o (IF SlotPresent(row, "Extras")
        THEN <<RoundEntry("Extras", row, "Extras")>> ELSE <<>>)

load_player_round_data(player_name, sh, outcome) ==
    IF outcome /= "ok"
    THEN [round_data |-> <<>>, errors |-> <<ErrRounds>>]
    ELSE LET k == FindPlayerRow(sh.individual, player_name)
         IN  IF k = 0 \/ DOMAIN sh.individual[k] = {}
             THEN [round_data |-> <<>>, errors |-> <<>>]
             ELSE [round_data |-> ExtractRounds(sh.individual[k]), errors |-> <<>>]

\* ------------------------------------------------------------- projection
team_colors ==
    [n \in {"Red", "Blue", "Green", "Yellow", "Purple", "Orange", "Pink", "Teal",
            "Brown", "Gray", "Black", "White"} |->
        CASE n = "Red" -> "#e74c3c"
          [] n = "Blue" -> "#3498db"
          [] n = "Green" -> "#2ecc71"
          [] n = "Yellow" -> "#f1c40f"
          [] n = "Purple" -> "#9b59b6"
          [] n = "Orange" -> "#e67e22"
          [] n = "Pink" -> "#e91e63"
          [] n = "Teal" -> "#1abc9c"
          [] n = "Brown" -> "#8b4513"
          [] n = "Gray" -> "#95a5a6"
          [] n = "Black" -> "#2d2d2d"
          [] n = "White" -> "#ecf0f1"]

InPalette(team) == team.t = "str" /\ team.s \in DOMAIN team_colors

\* team_colors.get(team, default)
ColorGetNoDefault(team, default) == IF InPalette(team) THEN team_colors[team.s] ELSE "None"
ColorGet(team, default) == IF InPalette(team) THEN team_colors[team.s] ELSE default

IndividualDefaultColor == "#3498db"
TeamDefaultColor == "#e74c3c"

DefendingChampion == Str("Gunter")
\* The icons of the two badges and of no badge.
DefendingIcon == "defending"
PastChampionIcon == "past-champion"
NoIcon == ""

InList(x, list) == \E k \in 1..Len(list) : list[k] = x

RegistryFirstIcon(name, past_champions) ==
    IF InList(name, past_champions) THEN PastChampionIcon
    ELSE IF name = DefendingChampion THEN DefendingIcon
    ELSE NoIcon
champion_icon(name, past_champions) ==
    IF name = DefendingChampion THEN DefendingIcon
    ELSE IF InList(name, past_champions) THEN PastChampionIcon
    ELSE NoIcon

\* One rendered card of the individual leaderboard.
IndividualCard(row, past_champions) ==
    [rank |-> row["Rank"], name |-> row["Player"], team |-> row["Team"],
     total |-> row["Total"],
     team_color |-> ColorGet(row["Team"], IndividualDefaultColor),
     champion_icon |-> champion_icon(row["Player"], past_champions),
     link |-> row["Player"]]

\* One rendered card of the team leaderboard.
TeamCard(row) ==
    [rank |-> row["Rank"], team |-> row["Team"], total |-> row["Total"],
     players |-> row["Players"],
     team_color |-> ColorGet(row["Team"], TeamDefaultColor)]

\* for i, row in df_individual.iterrows(): one card per row.
SkipRepeatedPlayers(rows, past_champions) ==
    LET keep == {k \in 1..Len(rows) :
                    \A j \in 1..(k - 1) : rows[j]["Player"] /= rows[k]["Player"]}
        F[k \in 0..Len(rows)] ==
            IF k = 0 THEN <<>>
            ELSE IF k \in keep THEN Append(F[k - 1], IndividualCard(rows[k], past_champions))
            ELSE F[k - 1]
    IN  F[Len(rows)]
RenderIndividual(rows, past_champions) ==
    [k \in 1..Len(rows) |-> IndividualCard(rows[k], past_champions)]

\* for i, row in df_team.iterrows(): one card per row.
RenderTeams(rows) == [k \in 1..Len(rows) |-> TeamCard(rows[k])]

\* ------------------------------------------------------------------ state
VARIABLES
    sheet,          \* the remote spreadsheet: [individual, team], two row sequences
    registry_file,  \* the content of players_2024.json
    query,          \* query[s]: the "player" query parameter of session s
    pc,             \* pc[s]: where the script run of session s stands
    slept,          \* slept[s]: time units of time.sleep(30) that have elapsed
    inflight,       \* inflight[s]: sheet fetches of session s still in progress
    fetches,        \* fetches[s]: sheet fetches started by the current run
    out             \* out[s]: what the current run of session s has rendered

vars == <<sheet, registry_file, query, pc, slept, inflight, fetches, out>>

\* The page of a run that has rendered nothing yet.
Blank ==
    [view |-> "none", outcome |-> "none", got_individual |-> FALSE, got_team |-> FALSE,
     errors |-> <<>>, warnings |-> <<>>, individual |-> <<>>, team |-> <<>>,
     rounds |-> <<>>, footer |-> FALSE, then |-> "none"]

\* ------------------------------------------------------------- the two views
\* What the run does after reporting "Could not load leaderboard data".
AfterFailure == "return"

\* show_main_leaderboard(), from the fetch to its last statement.
show_main_leaderboard(sh, file, outcome) ==
    LET data == load_data_from_sheets(sh, outcome)
        past == load_past_champions(file)
    IN  IF data.df_individual.is_none \/ data.df_team.is_none
        THEN [Blank EXCEPT !.view = "main", !.outcome = outcome,
                  !.got_individual = ~data.df_individual.is_none,
                  !.got_team = ~data.df_team.is_none,
                  !.errors = data.errors \o past.errors \o <<ErrNoData>>,
                  !.then = AfterFailure]
        ELSE [Blank EXCEPT !.view = "main", !.outcome = outcome,
                  !.got_individual = TRUE, !.got_team = TRUE,
                  !.errors = data.errors \o past.errors,
                  !.individual = RenderIndividual(data.df_individual.rows, past.champions),
                  !.team = RenderTeams(data.df_team.rows),
                  !.footer = TRUE,
                  !.then = "sleep"]

\* show_player_detail(), from the fetch to its return (Back not pressed).
show_player_detail(player_name, sh, outcome) ==
    LET r == load_player_round_data(player_name, sh, outcome)
    IN  IF r.round_data = <<>>
        THEN [Blank EXCEPT !.view = "detail", !.outcome = outcome,
                  !.errors = r.errors, !.warnings = <<WarnNoRounds>>,
                  !.then = "return"]
        ELSE [Blank EXCEPT !.view = "detail", !.outcome = outcome,
                  !.errors = r.errors, !.rounds = r.round_data, !.footer = TRUE,
                  !.then = "return"]

\* main(): the view the run shows for the value of the "player" parameter.
AlwaysMain(player_name) == "Fetching"
ViewFor(player_name) == IF Truthy(player_name) THEN "DetailFetching" ELSE "Fetching"

\* st.query_params.clear()
ClearedParams(q) == PyNone

\* time.sleep(30) has returned.
SleepCutShort(s) == slept[s] >= TickStep
SleepElapsed(s) == slept[s] = SleepInterval

\* ----------------------------------------------------------------- actions
\* A scheduled run starts: main() reads the parameter, picks the view, and the
\* view blocks in its sheet fetch.
StartRun(s) ==
    /\ pc[s] = "Start"
    /\ pc' = [pc EXCEPT ![s] = ViewFor(query[s])]
    /\ inflight' = [inflight EXCEPT ![s] = @ + 1]
    /\ fetches' = [fetches EXCEPT ![s] = 1]
    /\ out' = [out EXCEPT ![s] =
                  [Blank EXCEPT !.view = IF Truthy(query[s]) THEN "detail" ELSE "main"]]
    /\ UNCHANGED <<sheet, registry_file, query, slept>>

\* The fetch of the main view returns or raises; the run loads the registry,
\* renders, and either enters time.sleep(30) or returns.
FetchComplete(s) ==
    /\ pc[s] = "Fetching"
    /\ \E outcome \in MainOutcomes :
          LET page == show_main_leaderboard(sheet, registry_file, outcome)
          IN  /\ out' = [out EXCEPT ![s] = page]
              /\ pc' = [pc EXCEPT ![s] = IF page.then = "sleep" THEN "Sleeping" ELSE "Ended"]
    /\ inflight' = [inflight EXCEPT ![s] = @ - 1]
    /\ slept' = [slept EXCEPT ![s] = 0]
    /\ UNCHANGED <<sheet, registry_file, query, fetches>>

\* Time passes while the run sleeps.
Tick(s) ==
    /\ pc[s] = "Sleeping"
    /\ slept[s] < SleepInterval
    /\ slept' = [slept EXCEPT ![s] =
                    IF @ + TickStep > SleepInterval THEN SleepInterval ELSE @ + TickStep]
    /\ UNCHANGED <<sheet, registry_file, query, pc, inflight, fetches, out>>

\* time.sleep(30) returns and st.rerun() schedules the next run.
Rerun(s) ==
    /\ pc[s] = "Sleeping"
    /\ SleepElapsed(s)
    /\ pc' = [pc EXCEPT ![s] = "Start"]
    /\ slept' = [slept EXCEPT ![s] = 0]
    /\ fetches' = [fetches EXCEPT ![s] = 0]
    /\ out' = [out EXCEPT ![s] = Blank]
    /\ UNCHANGED <<sheet, registry_file, query, inflight>>

\* The fetch of the detail view returns or raises; the run renders and returns.
DetailFetchComplete(s) ==
    /\ pc[s] = "DetailFetching"
    /\ \E outcome \in DetailOutcomes :
          out' = [out EXCEPT ![s] = show_player_detail(query[s], sheet, outcome)]
    /\ pc' = [pc EXCEPT ![s] = "Ended"]
    /\ inflight' = [inflight EXCEPT ![s] = @ - 1]
    /\ UNCHANGED <<sheet, registry_file, query, slept, fetches>>

\* The viewer presses Back on a rendered detail page: the run that handles the
\* press clears the query parameters and calls st.rerun() before any fetch.
PressBack(s) ==
    /\ pc[s] = "Ended"
    /\ out[s].view = "detail"
    /\ query' = [query EXCEPT ![s] = ClearedParams(@)]
    /\ pc' = [pc EXCEPT ![s] = "Start"]
    /\ fetches' = [fetches EXCEPT ![s] = 0]
    /\ out' = [out EXCEPT ![s] = Blank]
    /\ UNCHANGED <<sheet, registry_file, slept, inflight>>

\* The viewer follows the link of a rendered individual card, href="?player={name}".
ClickPlayer(s) ==
    /\ pc[s] \in {"Sleeping", "Ended"}
    /\ out[s].view = "main"
    /\ \E k \in 1..Len(out[s].individual) :
          query' = [query EXCEPT ![s] = out[s].individual[k].link]
    /\ pc' = [pc EXCEPT ![s] = "Start"]
    /\ slept' = [slept EXCEPT ![s] = 0]
    /\ fetches' = [fetches EXCEPT ![s] = 0]
    /\ out' = [out EXCEPT ![s] = Blank]
    /\ UNCHANGED <<sheet, registry_file, inflight>>

Step(s) ==
    \/ StartRun(s)
    \/ FetchComplete(s)
    \/ Tick(s)
    \/ Rerun(s)
    \/ DetailFetchComplete(s)
    \/ PressBack(s)
    \/ ClickPlayer(s)

\* ------------------------------------------------------------------ inputs
Row(rank, player, team, r1) ==
    ("Rank" :> Num(rank)) @@ ("Player" :> Str(player)) @@ ("Team" :> Str(team))
    @@ ("Total" :> Num(42)) @@ ("R1" :> r1)

TeamRow(rank, team) ==
    ("Rank" :> Num(rank)) @@ ("Team" :> team) @@ ("Total" :> Num(80))
    @@ ("Players" :> Str("A, B"))

Champion(name, flag) == ("name" :> Str(name)) @@ ("past_champion" :> flag)

Parsed(players) == [status |-> "parsed", has_players |-> TRUE, players |-> players]
MissingFile == [status |-> "missing", has_players |-> FALSE, players |-> <<>>]
MalformedFile == [status |-> "malformed", has_players |-> FALSE, players |-> <<>>]
NoPlayersKey == [status |-> "parsed", has_players |-> FALSE, players |-> <<>>]

DemoSheet ==
    [individual |-> <<Row(1, "Gunter", "Red", Num(5)), Row(2, "Alice", "Zebra", Num(3))>>,
     team |-> <<TeamRow(1, Str("Red")), TeamRow(2, Str("Zebra"))>>]
DemoRegistry == Parsed(<<Champion("Alice", PyTrue), Champion("Gunter", PyTrue)>>)

EmptySheet == [individual |-> <<>>, team |-> <<>>]
NoTeamsSheet == [individual |-> DemoSheet.individual, team |-> <<>>]
SmallSheets == {DemoSheet, EmptySheet, NoTeamsSheet}
SmallRegistries == {DemoRegistry, MissingFile}
InitQueries == {PyNone, Str(""), Str("Alice"), Str("Ghost")}

InitWith(sheets, files, queries) ==
    /\ sheet \in sheets
    /\ registry_file \in files
    /\ query \in queries
    /\ pc = [s \in Sessions |-> "Start"]
    /\ slept = [s \in Sessions |-> 0]
    /\ inflight = [s \in Sessions |-> 0]
    /\ fetches = [s \in Sessions |-> 0]
    /\ out = [s \in Sessions |-> Blank]

\* Every session loads the page with or without a "player" parameter.
Init == InitWith(SmallSheets, SmallRegistries, [Sessions -> InitQueries])

Next == \E s \in Sessions : Step(s)

Spec == Init /\ [][Next]_vars

\* ------------------------------------------------- wide inputs, one session
Min(S) == CHOOSE x \in S : \A y \in S : x <= y
SeqsUpTo(S, n) == UNION {[1..m -> S] : m \in 0..n}
OnlyFirst(q) == [s \in Sessions |-> IF s = 1 THEN q ELSE PyNone]

PlayerNames == {"Gunter", "gunter", "Alice", "alice"}
TeamNames == {"Red", "Zebra"}
\* A numeric cell reaches the code as a number.
TeamTableNames == {Str("Red"), Str("Blue"), Str("Zebra"), Str("red"), Num(7)}

MainRows == {Row(r, p, t, Num(5)) : r \in 1..2, p \in PlayerNames, t \in TeamNames}
TeamRows == {TeamRow(r, t) : r \in 1..2, t \in TeamTableNames}

ProbeSheet ==
    [individual |-> <<Row(1, "Gunter", "Red", Num(5)), Row(2, "Alice", "Zebra", Num(3)),
                      Row(3, "alice", "Blue", Num(3)), Row(4, "gunter", "zebra", Num(1))>>,
     team |-> <<TeamRow(1, Str("Red")), TeamRow(2, Str("Zebra"))>>]

\* An entry of data['players']: a dict that may lack either key.
NoKey == [t |-> "absent", s |-> "", i |-> 0]
Entry(name, flag) ==
    [k \in {x \in {"name", "past_champion"} :
                (x = "name" /\ name /= NoKey) \/ (x = "past_champion" /\ flag /= NoKey)} |->
        IF k = "name" THEN name ELSE flag]
Entries ==
    {Entry(n, f) : n \in {Str("Gunter"), Str("Alice"), Str("alice"), NoKey},
                   f \in {PyTrue, PyFalse, NoKey}}

WideRegistries ==
    {Parsed(ps) : ps \in SeqsUpTo(Entries, MaxEntries)}
    \cup {MissingFile, MalformedFile, NoPlayersKey}

InitProj ==
    /\ \/ /\ sheet \in {[individual |-> rows, team |-> DemoSheet.team] :
                            rows \in SeqsUpTo(MainRows, MaxRows)}
          /\ registry_file \in {DemoRegistry, MissingFile}
       \/ /\ sheet \in {[individual |-> DemoSheet.individual, team |-> rows] :
                            rows \in SeqsUpTo(TeamRows, MaxRows)}
          /\ registry_file = DemoRegistry
       \/ /\ sheet = ProbeSheet
          /\ registry_file \in WideRegistries
    /\ InitWith({sheet}, {registry_file}, {OnlyFirst(q) : q \in {PyNone, Str("")}})

NextProj == StartRun(1) \/ FetchComplete(1) \/ Tick(1) \/ Rerun(1)

\* The main view over every small table and every small registry file.
SpecProj == InitProj /\ [][NextProj]_vars

SlotKeys == <<"R1", "R2", "R3", "R4", "R5", "Putt-Off", "Extras">>
SlotLabels == <<"Round 1", "Round 2", "Round 3", "Round 4", "Round 5", "Putt-Off", "Extras">>
SlotValues == {NoKey, PyNone, Str(""), Num(0), Num(5)}

\* A row of the individual table whose seven round cells are f; a column the
\* sheet lacks is no key of the row.
RoundRow(player, f) ==
    [k \in {"Player"} \cup {SlotKeys[j] : j \in {j \in 1..7 : f[j] /= NoKey}} |->
        IF k = "Player" THEN Str(player)
        ELSE f[CHOOSE j \in 1..7 : SlotKeys[j] = k]]

LookupRows == {Row(1, p, "Red", r1) : p \in {"Alice", "alice", "Bob"},
                                       r1 \in {Num(3), Num(7), Str("")}}

InitDetail ==
    /\ \/ /\ sheet \in {[individual |-> <<RoundRow("Alice", f)>>, team |-> <<>>] :
                            f \in [1..7 -> SlotValues]}
          /\ query = OnlyFirst(Str("Alice"))
       \/ /\ sheet \in {[individual |-> rows, team |-> <<>>] :
                            rows \in SeqsUpTo(LookupRows, MaxRows)}
          /\ query \in {OnlyFirst(q) : q \in {Str("Alice"), Str("Ghost")}}
    /\ InitWith({sheet}, {MissingFile}, {query})

NextDetail == StartRun(1) \/ DetailFetchComplete(1) \/ PressBack(1)

\* The detail view over every small round row and every small table.
SpecDetail == InitDetail /\ [][NextDetail]_vars

\* ------------------------------------------------------------------ claims
MainDone(s) == out[s].view = "main" /\ out[s].outcome /= "none"
DetailDone(s) == out[s].view = "detail" /\ out[s].outcome /= "none"
SessionVars(s) == <<query[s], pc[s], slept[s], inflight[s], fetches[s], out[s]>>

\* C1: after a cycle of the main view whose fetch failed and was reported, the
\* session is on its way to the next cycle (in the 30-unit wait that precedes
\* the rerun), exactly as after a successful cycle.
C1_FailureKeepsLoop ==
    \A s \in Sessions :
        (MainDone(s) /\ InList(ErrNoData, out[s].errors)) => pc[s] = "Sleeping"

\* C2: a cycle whose fetch of either table failed gets no table from
\* load_data_from_sheets and renders no individual card and no team card; a
\* cycle renders the two tables together or neither.
C2_AllOrNothing ==
    \A s \in Sessions :
        MainDone(s) =>
            IF out[s].outcome = "ok"
            THEN /\ out[s].got_individual /\ out[s].got_team
                 /\ Len(out[s].individual) = Len(sheet.individual)
                 /\ Len(out[s].team) = Len(sheet.team)
            ELSE /\ ~out[s].got_individual /\ ~out[s].got_team
                 /\ out[s].individual = <<>> /\ out[s].team = <<>>
                 /\ InList(ErrSheets, out[s].errors)

C2_Witness ==
    \E s \in Sessions :
        MainDone(s) /\ out[s].outcome = "fail_team" /\ Len(sheet.individual) > 0

\* The registry as the claims speak of it: the names the file holds with
\* past_champion = true when the whole file can be read, nothing otherwise.
RegistryUnavailable(file) ==
    \/ file.status /= "parsed"
    \/ ~file.has_players
    \/ \E k \in 1..Len(file.players) :
          /\ "past_champion" \in DOMAIN file.players[k]
          /\ file.players[k]["past_champion"] = PyTrue
          /\ "name" \notin DOMAIN file.players[k]
RegistryHolds(file, name) ==
    /\ ~RegistryUnavailable(file)
    /\ \E k \in 1..Len(file.players) :
          /\ DOMAIN file.players[k] = {"name", "past_champion"}
          /\ file.players[k]["name"] = name
          /\ file.players[k]["past_champion"] = PyTrue

\* C3: each individual card's badge is "defending" when the player is exactly
\* "Gunter", whatever the registry holds; otherwise "past-champion" when the
\* registry holds exactly that name with past_champion = true; otherwise none.
C3_BadgePrecedence ==
    (MainDone(1) /\ out[1].outcome = "ok") =>
        \A k \in 1..Len(out[1].individual) :
            LET name == sheet.individual[k]["Player"]
            IN  out[1].individual[k].champion_icon =
                    IF name.s = "Gunter" THEN "defending"
                    ELSE IF RegistryHolds(registry_file, name) THEN "past-champion"
                    ELSE ""

C3_Witness ==
    /\ MainDone(1) /\ out[1].outcome = "ok"
    /\ RegistryHolds(registry_file, Str("Gunter"))
    /\ RegistryHolds(registry_file, Str("Alice"))
    /\ ~RegistryHolds(registry_file, Str("alice"))
    /\ \E k \in 1..Len(out[1].individual) : out[1].individual[k].name = Str("Gunter")
    /\ \E k \in 1..Len(out[1].individual) : out[1].individual[k].name = Str("alice")

\* C4: a team name outside the 12-entry palette gets the same default colour
\* on an individual card and on a team card.
C4_OneDefaultColour ==
    MainDone(1) =>
        \A k \in 1..Len(out[1].individual) : \A j \in 1..Len(out[1].team) :
            (~InPalette(out[1].individual[k].team) /\ ~InPalette(out[1].team[j].team))
                => out[1].individual[k].team_color = out[1].team[j].team_color

\* C4 as amended: a team name outside the 12-entry palette gets the default of
\* the leaderboard it is rendered in, #3498db on every individual card and
\* #e74c3c on every team card; a palette name gets its palette colour on both.
C4_DefaultPerLeaderboard ==
    (MainDone(1) /\ out[1].outcome = "ok") =>
        /\ \A k \in 1..Len(out[1].individual) :
              LET team == sheet.individual[k]["Team"]
              IN  out[1].individual[k].team_color =
                      IF team.t = "str" /\ team.s \in DOMAIN team_colors
                      THEN team_colors[team.s] ELSE "#3498db"
        /\ \A j \in 1..Len(out[1].team) :
              LET team == sheet.team[j]["Team"]
              IN  out[1].team[j].team_color =
                      IF team.t = "str" /\ team.s \in DOMAIN team_colors
                      THEN team_colors[team.s] ELSE "#e74c3c"

C4_Witness ==
    /\ MainDone(1) /\ out[1].outcome = "ok"
    /\ \E k \in 1..Len(out[1].individual) : \E j \in 1..Len(out[1].team) :
          /\ out[1].individual[k].team = Str("Zebra")
          /\ out[1].team[j].team = Str("Zebra")
          /\ out[1].individual[k].team_color = "#3498db"
          /\ out[1].team[j].team_color = "#e74c3c"
    /\ \E j \in 1..Len(out[1].team) : out[1].team[j].team = Num(7)

\* C5: the round history of the matched row holds exactly the slots among
\* R1..R5, Putt-Off, Extras whose cell is there and is neither None nor "" (0 is
\* kept), each with the cell's value, in the order Round 1..5, Putt-Off, Extras.
SlotKept(row, j) ==
    /\ SlotKeys[j] \in DOMAIN row
    /\ row[SlotKeys[j]].t /= "none"
    /\ ~(row[SlotKeys[j]].t = "str" /\ row[SlotKeys[j]].s = "")
LabelIndex(label) == CHOOSE j \in 1..7 : SlotLabels[j] = label
C5_RoundHistory ==
    (DetailDone(1) /\ out[1].outcome = "ok" /\ pc[1] = "Ended"
        /\ \E k \in 1..Len(sheet.individual) : sheet.individual[k]["Player"] = query[1]) =>
        LET row == sheet.individual[
                       Min({k \in 1..Len(sheet.individual) :
                               sheet.individual[k]["Player"] = query[1]})]
            rounds == out[1].rounds
        IN  /\ \A k \in 1..Len(rounds) : \E j \in 1..7 : rounds[k].label = SlotLabels[j]
            /\ \A j \in 1..7 :
                  SlotKept(row, j) <=>
                      \E k \in 1..Len(rounds) :
                          /\ rounds[k].label = SlotLabels[j]
                          /\ rounds[k].points = row[SlotKeys[j]]
            /\ \A k \in 1..Len(rounds) : \A l \in 1..Len(rounds) :
                  k < l => LabelIndex(rounds[k].label) < LabelIndex(rounds[l].label)

C5_Witness ==
    /\ DetailDone(1) /\ out[1].outcome = "ok"
    /\ Len(out[1].rounds) = 3
    /\ out[1].rounds[1] = [label |-> "Round 1", points |-> Num(0)]
    /\ out[1].rounds[2] = [label |-> "Round 3", points |-> Num(5)]
    /\ out[1].rounds[3] = [label |-> "Extras", points |-> Num(5)]
    /\ "R2" \in DOMAIN sheet.individual[1] /\ sheet.individual[1]["R2"] = Str("")
    /\ "R4" \in DOMAIN sheet.individual[1] /\ sheet.individual[1]["R4"] = PyNone
    /\ "Putt-Off" \notin DOMAIN sheet.individual[1]

\* C6: the individual leaderboard has one card per fetched row, in source
\* order, each with its own row's rank, team and total and its own player name
\* as the link key.
C6_OrderAndLength ==
    (MainDone(1) /\ out[1].outcome = "ok") =>
        /\ Len(out[1].individual) = Len(sheet.individual)
        /\ \A k \in 1..Len(sheet.individual) :
              /\ out[1].individual[k].name = sheet.individual[k]["Player"]
              /\ out[1].individual[k].link = sheet.individual[k]["Player"]
              /\ out[1].individual[k].rank = sheet.individual[k]["Rank"]
              /\ out[1].individual[k].team = sheet.individual[k]["Team"]
              /\ out[1].individual[k].total = sheet.individual[k]["Total"]

C6_Witness ==
    /\ MainDone(1) /\ out[1].outcome = "ok"
    /\ Len(out[1].individual) = 2
    /\ out[1].individual[1].name = out[1].individual[2].name
    /\ out[1].individual[1].rank = Num(2)
    /\ out[1].individual[2].rank = Num(1)

\* C7: when the registry file is missing, unreadable or malformed, also when
\* reading fails at a later entry, no card gets the "past-champion" badge, the
\* failure is reported, and a cycle whose fetch succeeded still renders both
\* tables and goes on to the wait before the next cycle.
C7_RegistryFailure ==
    (MainDone(1) /\ RegistryUnavailable(registry_file)) =>
        /\ InList(ErrChampions, out[1].errors)
        /\ \A k \in 1..Len(out[1].individual) :
              out[1].individual[k].champion_icon /= "past-champion"
        /\ out[1].outcome = "ok" =>
              /\ Len(out[1].individual) = Len(sheet.individual)
              /\ Len(out[1].team) = Len(sheet.team)
              /\ out[1].footer
              /\ pc[1] = "Sleeping"

C7_Witness ==
    /\ MainDone(1) /\ out[1].outcome = "ok"
    /\ registry_file.status = "parsed" /\ registry_file.has_players
    /\ Len(registry_file.players) = 2
    /\ registry_file.players[1] = Entry(Str("Alice"), PyTrue)
    /\ registry_file.players[2] = Entry(NoKey, PyTrue)
    /\ \E k \in 1..Len(out[1].individual) : out[1].individual[k].name = Str("Alice")

\* C8: the rounds shown are those of the first row, in source order, whose
\* "Player" cell equals the requested name; with no such row the history is
\* empty, only the empty-result notice is shown and no error is reported,
\* while a failed fetch always reports an error.
C8_FirstMatchOrEmpty ==
    (DetailDone(1) /\ pc[1] = "Ended") =>
        LET hits == {k \in 1..Len(sheet.individual) :
                        sheet.individual[k]["Player"] = query[1]}
        IN  IF out[1].outcome /= "ok"
            THEN out[1].errors = <<ErrRounds>> /\ out[1].rounds = <<>>
            ELSE /\ out[1].errors = <<>>
                 /\ IF hits = {}
                    THEN out[1].rounds = <<>> /\ out[1].warnings = <<WarnNoRounds>>
                    ELSE out[1].rounds = ExtractRounds(sheet.individual[Min(hits)])

C8_Witness ==
    /\ DetailDone(1) /\ out[1].outcome = "ok"
    /\ Len(sheet.individual) = 2
    /\ sheet.individual[1]["Player"] = query[1]
    /\ sheet.individual[2]["Player"] = query[1]
    /\ sheet.individual[1]["R1"] = Num(3)
    /\ sheet.individual[2]["R1"] = Num(7)
    /\ out[1].rounds = <<[label |-> "Round 1", points |-> Num(3)]>>

C8_WitnessMissing ==
    /\ DetailDone(1) /\ out[1].outcome = "ok"
    /\ Len(sheet.individual) = 2
    /\ query[1] = Str("Ghost")

\* C9: a session has at most one fetch in progress; a fetch starts only when
\* none is in progress; the loop leaves its sleep for the next cycle only when
\* the 30 units have fully elapsed; a step of one session changes no other
\* session; no step changes the sheet.
C9_SequentialLoop ==
    /\ [](\A s \in Sessions :
            /\ inflight[s] \in {0, 1}
            /\ inflight[s] = 1 <=> pc[s] \in {"Fetching", "DetailFetching"})
    /\ [][\A s \in Sessions :
            /\ inflight'[s] > inflight[s] => (inflight[s] = 0 /\ pc[s] = "Start")
            /\ (pc[s] = "Sleeping" /\ pc'[s] /= "Sleeping" /\ query'[s] = query[s])
                  => (slept[s] = SleepInterval /\ pc'[s] = "Start")
            /\ (pc[s] = "Sleeping" /\ pc'[s] = "Sleeping") => slept'[s] >= slept[s]
            /\ \A t \in Sessions \ {s} :
                  SessionVars(s)' /= SessionVars(s) => SessionVars(t)' = SessionVars(t)]_vars
    /\ [][sheet' = sheet]_vars

C9_Witness ==
    \E s \in Sessions : \E t \in Sessions \ {s} :
        /\ pc[s] = "Fetching" /\ out[s].view = "main"
        /\ pc[t] = "Sleeping" /\ slept[t] = SleepInterval

\* C10: a run picks its view by the "player" parameter alone; a detail run
\* makes one fetch, renders and returns, never sleeping or rerunning, whatever
\* the fetch outcome; the only way on from a finished detail run is Back,
\* which clears the parameter, so that the next run shows the main view.
C10_ViewByParameter ==
    /\ [](\A s \in Sessions :
            /\ out[s].view = "detail" => (pc[s] \in {"DetailFetching", "Ended"} /\ slept[s] = 0)
            /\ (out[s].view = "detail" /\ pc[s] = "Ended") =>
                  (fetches[s] = 1 /\ inflight[s] = 0 /\ out[s].then = "return"
                   /\ (out[s].rounds /= <<>> \/ out[s].warnings = <<WarnNoRounds>>)))
    /\ [][\A s \in Sessions :
            /\ (pc[s] = "Start" /\ pc'[s] /= "Start") =>
                  IF query[s].t = "str" /\ query[s].s /= ""
                  THEN pc'[s] = "DetailFetching" /\ out'[s].view = "detail"
                  ELSE pc'[s] = "Fetching" /\ out'[s].view = "main"
            /\ (out[s].view = "detail" /\ pc[s] = "Ended" /\ pc'[s] /= "Ended") =>
                  (pc'[s] = "Start" /\ query'[s] = PyNone)]_vars

C10_Witness ==
    \E s \in Sessions : \E t \in Sessions \ {s} :
        /\ out[s].view = "detail" /\ pc[s] = "Ended" /\ out[s].outcome = "fail_connect"
        /\ out[t].view = "detail" /\ pc[t] = "Ended" /\ out[t].outcome = "ok"
        /\ out[t].rounds /= <<>>

====
